---- MODULE Spec2Model ----
(***************************************************************************)
(* Stroke-risk prediction service of the healthcare records application:   *)
(* the lazily loaded artifacts (classifier, scaler, label encoders), the   *)
(* predict_risk pipeline (encode -> scale -> classify -> bucket) and the   *)
(* /predict route with its input validation.                               *)
(*                                                                         *)
(* Values carried by a request are tagged records: [num |-> n] is the      *)
(* number n/10 (numbers are kept in tenths so that 1.5 is representable),  *)
(* [str |-> s] a string and [null |-> TRUE] JSON null / Python None.       *)
(* Probabilities are kept in units of 10^-5.                               *)
(***************************************************************************)
EXTENDS Integers, Sequences, FiniteSets, TLC

\* ------------------------------------------------------------------ bounds
\* Number of request threads of the (threaded) WSGI server that are modelled.
NumThreads == 2
\* Total number of predict_risk calls made in one behaviour.
MaxCalls == 2

Threads == 1..NumThreads

\* Largest patient id of the modelled requests and records.
MaxPatientId == 1

PatientIds == 1..MaxPatientId

\* The patients collection without a record.
NoPatients == [ i \in PatientIds |-> 0 ]

\* ------------------------------------------------------------- vocabulary
None == [null |-> TRUE]
Num(n) == [num |-> n]
Str(s) == [str |-> s]
IsNum(v) == DOMAIN v = {"num"}
IsStr(v) == DOMAIN v = {"str"}

Artifacts == {"model", "scaler", "encoders"}

\* feature_order of predict_risk; also required_fields of the validator.
feature_order ==
    << "gender", "age", "hypertension", "heart_disease", "ever_married",
       "work_type", "Residence_type", "avg_glucose_level", "bmi",
       "smoking_status" >>

required_fields == feature_order

categorical_cols ==
    << "gender", "ever_married", "work_type", "Residence_type", "smoking_status" >>

numeric_fields == << "age", "avg_glucose_level", "bmi" >>

Range(s) == { s[i] : i \in DOMAIN s }

\* classes_ of each fitted LabelEncoder: the sorted distinct training values.
classes_(col) ==
    CASE col = "gender"         -> << "Female", "Male", "Other" >>
      [] col = "ever_married"   -> << "No", "Yes" >>
      [] col = "work_type"      -> << "Private", "Self-employed" >>
      [] col = "Residence_type" -> << "Rural", "Urban" >>
      [] col = "smoking_status" ->
             << "Unknown", "formerly smoked", "never smoked", "smokes" >>

\* ------------------------------------------------------- python built-ins
\* Text accepted by float(); the value is in tenths.
FloatLiterals ==
    ("0" :> 0) @@ ("1" :> 10) @@ ("45" :> 450) @@ ("1.5" :> 15) @@ ("120.5" :> 1205)
\* Text accepted by int().
IntLiterals == ("0" :> 0) @@ ("1" :> 10) @@ ("45" :> 450)

Ok(v) == [ok |-> TRUE, v |-> v]
Raise(e, m) == [ok |-> FALSE, exc |-> e, msg |-> m]

\* float('nan'): a float that is not a number; every comparison with it is
\* false. (No request of the /predict runs carries this text.)
NaN == [ok |-> TRUE, v |-> 0, nan |-> TRUE]

IsNaN(r) == "nan" \in DOMAIN r

\* float(v)
PyFloat(v) ==
    IF IsNum(v) THEN Ok(v.num)
    ELSE IF IsStr(v)
         THEN IF v.str = "nan" THEN NaN
              ELSE IF v.str \in DOMAIN FloatLiterals THEN Ok(FloatLiterals[v.str])
              ELSE Raise("ValueError", "could not convert string")
         ELSE Raise("TypeError", "argument must be a string or a number")

Trunc(n) == IF n >= 0 THEN (n \div 10) * 10 ELSE -(((-n) \div 10) * 10)

\* int(v): truncates a number toward zero, parses integer text only.
PyInt(v) ==
    IF IsNum(v) THEN Ok(Trunc(v.num))
    ELSE IF IsStr(v)
         THEN IF v.str \in DOMAIN IntLiterals THEN Ok(IntLiterals[v.str])
              ELSE Raise("ValueError", "could not convert string")
         ELSE Raise("TypeError", "argument must be a string or a number")

\* ---------------------------------------------------------------- encoder
IndexOf(seq, x) == CHOOSE i \in DOMAIN seq : seq[i] = x

\* LabelEncoder.transform([v])[0]: the position of v in classes_, and a
\* ValueError for a value that is not one of the classes.
LabelTransform(col, v) ==
    IF IsStr(v) /\ v.str \in Range(classes_(col))
    THEN Ok(IndexOf(classes_(col), v.str) - 1)
    ELSE Raise("ValueError", "y contains previously unseen labels")

\* The code assigned to a label the encoder has never seen.
UnseenCode == 0

\* Mutant: the handler of ValueError forgets to assign the default.
EncodeCol_KeepLabel(col, v) ==
    LET r == LabelTransform(col, v)
    IN  IF r.ok THEN Num(10 * r.v) ELSE v

\* One categorical column of encoded_data: the encoder's code, or the
\* default when transform raises ValueError.
EncodeCol(col, v) ==
    LET r == LabelTransform(col, v)
    IN  IF r.ok THEN Num(10 * r.v) ELSE Num(10 * UnseenCode)

\* encoded_data after the loop over categorical_cols (encoders loaded).
EncodeData(patient_data) ==
    [ f \in DOMAIN patient_data |->
        IF f \in Range(categorical_cols)
        THEN EncodeCol(f, patient_data[f])
        ELSE patient_data[f] ]

\* The warnings logged by the loop: one per column whose label is unseen.
UnseenLabels(patient_data) ==
    { [col |-> f, value |-> patient_data[f]] :
        f \in { g \in Range(categorical_cols) \cap DOMAIN patient_data :
                   ~LabelTransform(g, patient_data[g]).ok } }

\* np.array([[encoded_data[col] for col in feature_order]]): KeyError on
\* the first feature that the input does not carry.
BuildX(encoded_data) ==
    LET missing == { i \in DOMAIN feature_order :
                       feature_order[i] \notin DOMAIN encoded_data }
    IN  IF missing # {}
        THEN LET first == CHOOSE i \in missing : \A j \in missing : i <= j
             IN  Raise("KeyError", feature_order[first])
        ELSE Ok([ i \in DOMAIN feature_order |-> encoded_data[feature_order[i]] ])

\* ----------------------------------------------------------------- scaler
\* mean_ of the fitted StandardScaler, in tenths (the scale_ is one unit).
ScalerMean == << 4, 432, 1, 1, 7, 5, 5, 1061, 289, 14 >>

\* StandardScaler.transform: elementwise (x - mean) / scale; an array that
\* holds anything but numbers is rejected.
ScalerTransform(X) ==
    IF \E i \in DOMAIN X : ~IsNum(X[i])
    THEN IF \E i \in DOMAIN X : IsStr(X[i])
         THEN Raise("ValueError", "could not convert string to float")
         ELSE Raise("TypeError", "float() argument must be a string or a number")
    ELSE Ok([ i \in DOMAIN X |-> X[i].num - ScalerMean[i] ])

\* Mutant: scaling is skipped while no scaler is loaded.
ScalerCall_SkipNone(scaler, X) ==
    IF scaler = None /\ \A i \in DOMAIN X : IsNum(X[i])
    THEN Ok([ i \in DOMAIN X |-> X[i].num ])
    ELSE ScalerTransform(X)

\* self._scaler.transform(X_input): an attribute of None does not exist.
ScalerCall(scaler, X) ==
    IF scaler = None
    THEN Raise("AttributeError", "'NoneType' object has no attribute 'transform'")
    ELSE ScalerTransform(X)

\* ------------------------------------------------------------- classifier
RECURSIVE SumSeq(_)
SumSeq(s) == IF s = << >> THEN 0 ELSE s[1] + SumSeq(Tail(s))

\* The class-1 probabilities the fitted forest can answer with (units of
\* 10^-5): the bucket boundaries, their neighbours and the extremes.
ProbGrid == << 0, 32000, 32996, 33000, 50000, 65900, 65996, 66000, 100000 >>

\* predict_proba(X_scaled)[0][1]: a fixed function of the scaled vector.
PredictProba(X_scaled) == ProbGrid[(SumSeq(X_scaled) % Len(ProbGrid)) + 1]

\* ---------------------------------------------------------------- bucketer
LowThreshold == 33000
HighThreshold == 66000

\* Mutant: the comparisons written with <= instead of <.
Categorize_Inclusive(p) ==
    IF p <= LowThreshold
    THEN [ risk_category |-> "Low Risk", risk_color |-> "green" ]
    ELSE IF p <= HighThreshold
         THEN [ risk_category |-> "Medium Risk", risk_color |-> "orange" ]
         ELSE [ risk_category |-> "High Risk", risk_color |-> "red" ]

\* The if / elif / else chain that sets risk_category and risk_color.
Categorize(p) ==
    IF p < LowThreshold
    THEN [ risk_category |-> "Low Risk", risk_color |-> "green" ]
    ELSE IF p < HighThreshold
         THEN [ risk_category |-> "Medium Risk", risk_color |-> "orange" ]
         ELSE [ risk_category |-> "High Risk", risk_color |-> "red" ]

\* round(p * 100, 2) in hundredths of a percent (ties to even).
Round2(p) ==
    LET q == p \div 10
        r == p % 10
    IN  IF r < 5 THEN q
        ELSE IF r > 5 THEN q + 1
        ELSE q + (q % 2)

Success(p) ==
    [ success |-> TRUE, risk_probability |-> Round2(p),
      risk_category |-> Categorize(p).risk_category,
      risk_color |-> Categorize(p).risk_color ]

\* A failure result; the error text is kept as << fixed text, detail >>, the
\* detail being a field name or the text of an exception.
Failure(text, detail) == [ success |-> FALSE, error |-> << text, detail >> ]

\* ------------------------------------------------------------------ inputs
\* The example request of the validator's documentation.
BaseData ==
    [ gender |-> Str("Male"), age |-> Num(450), hypertension |-> Num(0),
      heart_disease |-> Num(0), ever_married |-> Str("Yes"),
      work_type |-> Str("Private"), Residence_type |-> Str("Urban"),
      avg_glucose_level |-> Num(1205), bmi |-> Num(256),
      smoking_status |-> Str("never smoked") ]

Without(d, f) == [ g \in DOMAIN d \ {f} |-> d[g] ]

\* Inputs of direct predict_risk calls made by concurrent requests: a valid
\* one, an unseen category, a missing key and a non-numeric value.
ConcurrentInputs ==
    { BaseData,
      [BaseData EXCEPT !.gender = Str("Nonbinary")],
      Without(BaseData, "bmi"),
      [BaseData EXCEPT !.age = Str("abc")] }

\* Inputs of sequential direct calls: the above and a range of ages, which
\* moves the classifier's answer over the whole grid.
SequentialInputs ==
    ConcurrentInputs
      \cup { [BaseData EXCEPT !.age = Num(450 + k)] : k \in 1..(Len(ProbGrid) - 1) }

\* ------------------------------------------------------ /predict requests
\* Number of fields in which a request body differs from the example.
MaxEdits == 2

Absent == [ absent |-> TRUE ]

\* What a client may put in place of a field: nothing, null, the empty
\* string, a fractional number, the same as text, text that is no number.
EditValues == { Absent, None, Str(""), Num(15), Str("1.5"), Str("abc") }

\* The sets of fields a request may differ in.
EditSets == { F \in SUBSET Range(required_fields) : Cardinality(F) <= MaxEdits }

\* The example body with the fields of e replaced (or left out).
Edited(e) ==
    [ g \in Range(required_fields) \ { f \in DOMAIN e : e[f] = Absent } |->
        IF g \in DOMAIN e THEN e[g] ELSE BaseData[g] ]

\* The JSON object {}.
EmptyBody == [ f \in {} |-> None ]

\* -------------------------------------------------------------- validator
\* Mutant: the empty string is not taken for a missing value.
IsMissing_NoEmpty(data, field) ==
    \/ field \notin DOMAIN data
    \/ data[field] = None

\* field not in data or data[field] is None or data[field] == ''
IsMissing(data, field) ==
    \/ field \notin DOMAIN data
    \/ data[field] = None
    \/ data[field] = Str("")

Least(S) == CHOOSE i \in S : \A j \in S : i <= j

\* validate_prediction_input: (is_valid, error_message).
validate_prediction_input(data) ==
    LET missing == { i \in DOMAIN required_fields : IsMissing(data, required_fields[i]) }
    IN  IF missing # {}
        THEN [ is_valid |-> FALSE,
               error |-> << "Missing required field: ", required_fields[Least(missing)] >> ]
        ELSE LET bad == { i \in DOMAIN numeric_fields :
                            ~PyFloat(data[numeric_fields[i]]).ok }
             IN  IF bad # {}
                 THEN [ is_valid |-> FALSE,
                        error |-> << "Invalid numeric value: ",
                                     PyFloat(data[numeric_fields[Least(bad)]]).msg >> ]
                 ELSE [ is_valid |-> TRUE, error |-> << "", "" >> ]

\* The conversions of the route, in the order the dict literal evaluates
\* them; the first one that raises ends the evaluation.
Conversions ==
    << << "age", "float" >>, << "hypertension", "int" >>,
       << "heart_disease", "int" >>, << "avg_glucose_level", "float" >>,
       << "bmi", "float" >> >>

Convert(kind, v) == IF kind = "float" THEN PyFloat(v) ELSE PyInt(v)

\* patient_data as the route prepares it from a validated body.
PreparePatientData(data) ==
    LET failing == { i \in DOMAIN Conversions :
                       ~Convert(Conversions[i][2], data[Conversions[i][1]]).ok }
        kindOf(f) == Conversions[CHOOSE i \in DOMAIN Conversions :
                                    Conversions[i][1] = f][2]
    IN  IF failing # {}
        THEN LET c == Conversions[Least(failing)] IN Convert(c[2], data[c[1]])
        ELSE Ok([ f \in Range(feature_order) |->
                    IF \E i \in DOMAIN Conversions : Conversions[i][1] = f
                    THEN Num(Convert(kindOf(f), data[f]).v)
                    ELSE data[f] ])

\* ------------------------------------------------------------------- state
VARIABLES
    disk,           \* disk[a][i]: the file at the i-th candidate path of artifact a
    artifacts,      \* the class attributes _model, _scaler, _label_encoders
    pc,             \* pc[t]: where request thread t is in predict_risk
    patient_data,   \* patient_data[t]: argument of the running call
    load_ok,        \* load_ok[t]: what load_model returned to the call
    X_input,        \* X_input[t]: the encoded feature array
    X_scaled,       \* X_scaled[t]: the scaled feature array
    request,        \* request[t]: JSON body of the /predict request being served
    calls,          \* number of predict_risk calls started
    reads,          \* reads[a]: number of pickle.load calls on a file of artifact a
    log,            \* log[t]: "Unseen label" warnings logged by t's running call
    returned,       \* outcomes of the finished direct predict_risk calls
    last,           \* the /predict request just answered, with its response
    util,           \* the last call of a validator or sanitizer, with its result
    started,        \* create_app has run
    session,        \* current_user of the client: anonymous or a logged-in user
    server_up,      \* the MongoDB server can be reached
    mongo_client,   \* the module-level cache _mongo_client
    mongo_db,       \* the module-level cache _mongo_db
    patients,       \* patients[i]: number of records of the collection with id i
    http,           \* the last request answered by a page route, with its response
    users,          \* the rows of the users table of the SQLite database, by id
    id_index,       \* the patients collection has its unique index on id
    task,           \* task[t]: the database call thread t is running
    finished,       \* the database call that returned last, with its value
    now             \* the clock: number of database calls started

\* The state of the rest of the application, which the prediction service
\* and the /predict handler leave alone.
\* The state of the page routes, the sessions and the patient database.
web_vars ==
    << started, session, server_up, mongo_client, mongo_db, patients, http >>

\* The state of the user store and of the calls running on the two
\* databases.
db_vars == << users, id_index, task, finished, now >>

app_vars == << util, web_vars, db_vars >>

\* The state of the prediction service and of the /predict handler.
service_vars ==
    << disk, artifacts, pc, patient_data, load_ok, X_input, X_scaled, request,
       calls, reads, log, returned, last >>

vars == << service_vars, app_vars >>

\* Number of candidate paths tried for each artifact.
NumCandidates == 3

FileStates == { "absent", "ok", "corrupt" }

\* Deployments with the default configuration: MODEL_PATH and the last
\* candidate name the same file under ml_models/, where the training script
\* writes; nothing lies in the working directory.
DefaultDisks ==
    { d \in [ Artifacts -> [ 1..NumCandidates -> FileStates ] ] :
        \A a \in Artifacts : d[a][2] = "absent" /\ d[a][1] = d[a][3] }

Found(a) == \E i \in 1..NumCandidates : disk[a][i] # "absent"

\* The first candidate path for which os.path.exists holds, 0 when none.
FirstExisting(a) ==
    IF Found(a)
    THEN CHOOSE i \in 1..NumCandidates :
            /\ disk[a][i] # "absent"
            /\ \A j \in 1..(i - 1) : disk[a][j] = "absent"
    ELSE 0

Loaded(i) == [ path |-> i ]

\* An anonymous client (flask_login's AnonymousUserMixin).
Anonymous == [ anonymous |-> TRUE ]

\* The modules of the application as their import leaves them, before
\* create_app: no cached connection, no request answered, no session.
AppStart ==
    /\ util = None
    /\ started = FALSE
    /\ session = Anonymous
    /\ mongo_client = None
    /\ mongo_db = None
    /\ http = None
    /\ task = [ t \in Threads |-> None ]
    /\ finished = None
    /\ now = 0

\* The service as the import of the module leaves it: the singleton exists
\* and nothing is loaded.
ServiceStart ==
    /\ artifacts = [ a \in Artifacts |-> None ]
    /\ pc = [ t \in Threads |-> "idle" ]
    /\ patient_data = [ t \in Threads |-> None ]
    /\ load_ok = [ t \in Threads |-> None ]
    /\ X_input = [ t \in Threads |-> None ]
    /\ X_scaled = [ t \in Threads |-> None ]
    /\ request = [ t \in Threads |-> None ]
    /\ calls = 0
    /\ reads = [ a \in Artifacts |-> 0 ]
    /\ log = [ t \in Threads |-> {} ]
    /\ returned = {}
    /\ last = None

\* A fresh installation: the database server is up, the patients
\* collection and the users table hold nothing.
Start ==
    /\ ServiceStart
    /\ AppStart
    /\ server_up = TRUE
    /\ patients = NoPatients
    /\ id_index = FALSE
    /\ users = << >>

Init ==
    /\ disk \in DefaultDisks
    /\ Start

\* ------------------------------------------------------- end of a call
\* predict_risk returns res to its caller: a direct caller's outcome joins
\* `returned`, the route answers jsonify(res). p is the classifier's
\* probability, -1 when the classifier was not reached; w is what the call
\* has written to the log.
Finish(t, res, p, w) ==
    /\ pc' = [pc EXCEPT ![t] = "idle"]
    /\ patient_data' = [patient_data EXCEPT ![t] = None]
    /\ load_ok' = [load_ok EXCEPT ![t] = None]
    /\ X_input' = [X_input EXCEPT ![t] = None]
    /\ X_scaled' = [X_scaled EXCEPT ![t] = None]
    /\ request' = [request EXCEPT ![t] = None]
    /\ log' = [log EXCEPT ![t] = {}]
    /\ IF request[t] = None
       THEN /\ returned' = returned \cup
                  { [ input |-> patient_data[t], result |-> res, proba |-> p,
                      logged |-> w ] }
            /\ last' = last
       ELSE /\ returned' = returned
            /\ last' = [ body |-> request[t], invoked |-> TRUE,
                         passed |-> patient_data[t], status |-> 200,
                         response |-> res, logged |-> w ]

\* Mutant: no except clause, the exception leaves predict_risk.
PredictExcept_Propagate(t, e, w) == Finish(t, [ raised |-> e.exc ], -1, w)

\* The except clause of predict_risk: the exception becomes a failure result.
PredictExcept(t, e, w) == Finish(t, Failure("", e.msg), -1, w)

\* ------------------------------------------------------------- load_model
\* A caller enters predict_risk and with it load_model.
Call(t, inputs) ==
    /\ pc[t] = "idle"
    /\ calls < MaxCalls
    /\ \E d \in inputs : patient_data' = [patient_data EXCEPT ![t] = d]
    /\ pc' = [pc EXCEPT ![t] = "lm_check"]
    /\ calls' = calls + 1
    /\ UNCHANGED << app_vars, disk, artifacts, load_ok, X_input, X_scaled, request, reads,
                    log, returned, last >>

\* if self._model is not None: return True
LmCheck(t) ==
    /\ pc[t] = "lm_check"
    /\ IF artifacts["model"] # None
       THEN /\ load_ok' = [load_ok EXCEPT ![t] = TRUE]
            /\ pc' = [pc EXCEPT ![t] = "pr_guard"]
       ELSE /\ load_ok' = load_ok
            /\ pc' = [pc EXCEPT ![t] = "lm_model"]
    /\ UNCHANGED << app_vars, disk, artifacts, patient_data, X_input, X_scaled, request,
                    calls, reads, log, returned, last >>

\* The except clause of load_model: log the error and return False.
LoadExcept(t) ==
    /\ load_ok' = [load_ok EXCEPT ![t] = FALSE]
    /\ pc' = [pc EXCEPT ![t] = "pr_guard"]

\* One "for path in ..._paths" loop: the first existing file is unpickled
\* into the attribute; a file that does not unpickle raises.
LoadArtifact(t, a, here, next) ==
    /\ pc[t] = here
    /\ LET i == FirstExisting(a)
       IN  IF i = 0
           THEN /\ pc' = [pc EXCEPT ![t] = next]
                /\ UNCHANGED << artifacts, reads, load_ok >>
           ELSE /\ reads' = [reads EXCEPT ![a] = @ + 1]
                /\ IF disk[a][i] = "ok"
                   THEN /\ artifacts' = [artifacts EXCEPT ![a] = Loaded(i)]
                        /\ pc' = [pc EXCEPT ![t] = next]
                        /\ load_ok' = load_ok
                   ELSE /\ artifacts' = artifacts
                        /\ LoadExcept(t)
    /\ UNCHANGED << app_vars, disk, patient_data, X_input, X_scaled, request, calls, log,
                    returned, last >>

LoadModel(t) == LoadArtifact(t, "model", "lm_model", "lm_scaler")

LoadScaler(t) == LoadArtifact(t, "scaler", "lm_scaler", "lm_encoders")

LoadEncoders(t) == LoadArtifact(t, "encoders", "lm_encoders", "lm_verify")

\* if self._model and self._scaler and self._label_encoders: return True
LmVerify(t) ==
    /\ pc[t] = "lm_verify"
    /\ load_ok' = [load_ok EXCEPT ![t] = \A a \in Artifacts : artifacts[a] # None]
    /\ pc' = [pc EXCEPT ![t] = "pr_guard"]
    /\ UNCHANGED << app_vars, disk, artifacts, patient_data, X_input, X_scaled, request,
                    calls, reads, log, returned, last >>

\* ----------------------------------------------------------- predict_risk
\* The two guards that precede the try block.
PrGuard(t) ==
    /\ pc[t] = "pr_guard"
    /\ IF load_ok[t] = FALSE
       THEN Finish(t, Failure("Model not loaded", ""), -1, log[t])
       ELSE IF artifacts["model"] = None
            THEN Finish(t, Failure("Model not available", ""), -1, log[t])
            ELSE /\ pc' = [pc EXCEPT ![t] = "pr_encode"]
                 /\ UNCHANGED << patient_data, load_ok, X_input, X_scaled,
                                 request, log, returned, last >>
    /\ UNCHANGED << app_vars, disk, artifacts, calls, reads >>

\* The encoding loop and the feature array. "col in self._label_encoders"
\* raises TypeError while the encoders are None.
PrEncode(t) ==
    /\ pc[t] = "pr_encode"
    /\ IF artifacts["encoders"] = None
       THEN PredictExcept(t, Raise("TypeError",
                "argument of type 'NoneType' is not iterable"), log[t])
       ELSE LET x == BuildX(EncodeData(patient_data[t]))
                w == log[t] \cup UnseenLabels(patient_data[t])
            IN  IF x.ok
                THEN /\ X_input' = [X_input EXCEPT ![t] = x.v]
                     /\ log' = [log EXCEPT ![t] = w]
                     /\ pc' = [pc EXCEPT ![t] = "pr_scale"]
                     /\ UNCHANGED << patient_data, load_ok, X_scaled, request,
                                     returned, last >>
                ELSE PredictExcept(t, x, w)
    /\ UNCHANGED << app_vars, disk, artifacts, calls, reads >>

\* X_scaled = self._scaler.transform(X_input)
PrScale(t) ==
    /\ pc[t] = "pr_scale"
    /\ LET x == ScalerCall(artifacts["scaler"], X_input[t])
       IN  IF x.ok
           THEN /\ X_scaled' = [X_scaled EXCEPT ![t] = x.v]
                /\ pc' = [pc EXCEPT ![t] = "pr_classify"]
                /\ UNCHANGED << patient_data, load_ok, X_input, request, log,
                                returned, last >>
           ELSE PredictExcept(t, x, log[t])
    /\ UNCHANGED << app_vars, disk, artifacts, calls, reads >>

\* predict_proba, the bucketing and the success result.
PrClassify(t) ==
    /\ pc[t] = "pr_classify"
    /\ LET risk_probability == PredictProba(X_scaled[t])
       IN  Finish(t, Success(risk_probability), risk_probability, log[t])
    /\ UNCHANGED << app_vars, disk, artifacts, calls, reads >>

\* ------------------------------------------------------- specifications
Step(t) ==
    \/ LmCheck(t)
    \/ LoadModel(t)
    \/ LoadScaler(t)
    \/ LoadEncoders(t)
    \/ LmVerify(t)
    \/ PrGuard(t)
    \/ PrEncode(t)
    \/ PrScale(t)
    \/ PrClassify(t)

\* Requests served concurrently by the threads of the server.
Next ==
    \E t \in Threads :
        \/ Call(t, ConcurrentInputs)
        \/ Step(t)

Spec == Init /\ [][Next]_vars

\* Calls that do not overlap: one worker thread serves them in turn.
NextSeq ==
    \/ Call(1, SequentialInputs)
    \/ Step(1)

SpecSeq == Init /\ [][NextSeq]_vars

\* ------------------------------------------------------------------- route
\* The route answers without calling the service.
Reject(t, body, code, res) ==
    /\ last' = [ body |-> body, invoked |-> FALSE, passed |-> None,
                 status |-> code, response |-> res, logged |-> {} ]
    /\ UNCHANGED << app_vars, disk, artifacts, pc, patient_data, load_ok, X_input,
                    X_scaled, request, calls, reads, log, returned >>

\* POST /predict with a JSON body, up to the call of predict_risk.
predict(t, body) ==
    /\ pc[t] = "idle"
    /\ last = None
    /\ IF body = EmptyBody
       THEN Reject(t, body, 400, Failure("No data provided", ""))
       ELSE LET v == validate_prediction_input(body)
            IN  IF ~v.is_valid
                THEN Reject(t, body, 400, Failure(v.error[1], v.error[2]))
                ELSE LET d == PreparePatientData(body)
                     IN  IF ~d.ok
                         THEN IF d.exc = "ValueError"
                              THEN Reject(t, body, 400, Failure("Invalid input: ", d.msg))
                              ELSE Reject(t, body, 500, Failure("", d.msg))
                         ELSE /\ calls < MaxCalls
                              /\ calls' = calls + 1
                              /\ request' = [request EXCEPT ![t] = body]
                              /\ patient_data' = [patient_data EXCEPT ![t] = d.v]
                              /\ pc' = [pc EXCEPT ![t] = "lm_check"]
                              /\ UNCHANGED << app_vars, disk, artifacts, load_ok, X_input,
                                              X_scaled, reads, log, returned, last >>

\* The response leaves the server and the request is over.
Respond ==
    /\ last # None
    /\ last' = None
    /\ UNCHANGED << app_vars, disk, artifacts, pc, patient_data, load_ok, X_input,
                    X_scaled, request, calls, reads, log, returned >>

\* Requests to /predict served one after another.
\* A client posts one of the modelled bodies while the worker is free.
Post(t) ==
    /\ pc[t] = "idle"
    /\ last = None
    /\ \/ \E F \in EditSets : \E e \in [ F -> EditValues ] : predict(t, Edited(e))
       \/ predict(t, EmptyBody)

NextRoute ==
    \/ Post(1)
    \/ Step(1)
    \/ Respond

\* Deployments of the route runs: the artifacts complete, absent, or with
\* the scaler alone absent.
RouteDisks ==
    { d \in DefaultDisks :
        \/ \A a \in Artifacts : d[a][1] = "ok"
        \/ \A a \in Artifacts : d[a][1] = "absent"
        \/ \A a \in Artifacts : d[a][1] = (IF a = "scaler" THEN "absent" ELSE "ok") }

InitRoute ==
    /\ disk \in RouteDisks
    /\ Start

SpecRoute == InitRoute /\ [][NextRoute]_vars

\* ------------------------------------------------------------------ claims
IsSuccess(res) ==
    /\ DOMAIN res = { "success", "risk_probability", "risk_category", "risk_color" }
    /\ res.success = TRUE

IsFailure(res) ==
    /\ DOMAIN res = { "success", "error" }
    /\ res.success = FALSE

LoadingPcs == { "lm_model", "lm_scaler", "lm_encoders" }

PipelinePcs == { "pr_encode", "pr_scale", "pr_classify" }

\* C1: every probability p the classifier produced is reported as Low Risk /
\* green exactly when p < 0.33, Medium Risk / orange exactly when
\* 0.33 <= p < 0.66 and High Risk / red exactly when p >= 0.66.
C1_Thresholds ==
    \A r \in returned :
        r.proba # -1 =>
            /\ IsSuccess(r.result)
            /\ (r.proba < 33000) <=>
                   (r.result.risk_category = "Low Risk" /\ r.result.risk_color = "green")
            /\ (r.proba >= 33000 /\ r.proba < 66000) <=>
                   (r.result.risk_category = "Medium Risk" /\ r.result.risk_color = "orange")
            /\ (r.proba >= 66000) <=>
                   (r.result.risk_category = "High Risk" /\ r.result.risk_color = "red")

\* Two finished calls whose probabilities were exactly 0.33 and exactly 0.66.
C1_Witness ==
    \E r1, r2 \in returned :
        /\ r1.proba = 33000 /\ r1.result.risk_category = "Medium Risk"
        /\ r2.proba = 66000 /\ r2.result.risk_category = "High Risk"

\* C2: two predict_risk calls with the same input return the same result,
\* wherever they fall in a sequence of calls (the files on disk never change).
C2_SameInputSameResult ==
    \A r1, r2 \in returned : r1.input = r2.input => r1.result = r2.result

\* C3: at most one thread is inside the loading section of load_model.
C3_OneInitializer ==
    Cardinality({ t \in Threads : pc[t] \in LoadingPcs }) <= 1

LoadOrder == << "model", "scaler", "encoders" >>

LoadPos(p) ==
    CASE p = "lm_model" -> 1 [] p = "lm_scaler" -> 2 [] p = "lm_encoders" -> 3

FileOk(a) == Found(a) /\ disk[a][FirstExisting(a)] = "ok"

\* Artifact a is still to be set by the initialization thread u is running.
StillToSet(u, a) ==
    /\ pc[u] \in LoadingPcs
    /\ \E k \in LoadPos(pc[u])..3 :
          /\ LoadOrder[k] = a
          /\ \A j \in LoadPos(pc[u])..k : FileOk(LoadOrder[j])

\* C4: no request is in encoding, scaling or classification while an
\* artifact is unset that another request's running initialization is
\* still to set.
C4_WaitsForInitialization ==
    \A t, u \in Threads :
        (t # u /\ pc[t] \in PipelinePcs) =>
            \A a \in Artifacts : StillToSet(u, a) => artifacts[a] # None

\* C5: each artifact file is read at most once, and none before the first
\* predict_risk call.
C5_ReadAtMostOnce ==
    /\ \A a \in Artifacts : reads[a] <= 1
    /\ calls = 0 => \A a \in Artifacts : reads[a] = 0

\* C6: while one of the artifacts cannot be found, every finished call
\* returned a success=false result, the classifier was never invoked and
\* no exception left predict_risk.
C6_MissingArtifactFails ==
    (\E a \in Artifacts : ~Found(a)) =>
        /\ \A r \in returned : IsFailure(r.result) /\ r.proba = -1
        /\ \A t \in Threads : pc[t] # "pr_classify"

\* The scaler is missing and a later call, let through by load_model, has
\* failed at the scaling step.
C6_Witness ==
    /\ ~Found("scaler")
    /\ \E r1, r2 \in returned :
          /\ r1.result = Failure("Model not loaded", "")
          /\ r2.result = Failure("", "'NoneType' object has no attribute 'transform'")

MissingFields(body) ==
    { f \in Range(feature_order) :
        IF f \in DOMAIN body THEN body[f] \in { None, Str("") } ELSE TRUE }

FirstMissingField(body) ==
    feature_order[CHOOSE i \in DOMAIN feature_order :
                     /\ feature_order[i] \in MissingFields(body)
                     /\ \A j \in 1..(i - 1) : feature_order[j] \notin MissingFields(body)]

\* C7 as stated: a request with a required field absent, null or empty never
\* reaches predict_risk and is answered success=false with an error naming
\* the first missing field.
C7_NamesFirstMissingField ==
    /\ \A t \in Threads : request[t] # None => MissingFields(request[t]) = {}
    /\ (last # None /\ MissingFields(last.body) # {}) =>
          /\ ~last.invoked
          /\ last.response =
                Failure("Missing required field: ", FirstMissingField(last.body))

\* C7 amended: such a request never reaches predict_risk and is answered
\* success=false; the error names the first missing field, except that the
\* empty object is answered 'No data provided'.
C7_RejectedBeforeService ==
    /\ \A t \in Threads : request[t] # None => MissingFields(request[t]) = {}
    /\ (last # None /\ MissingFields(last.body) # {}) =>
          /\ ~last.invoked
          /\ last.response =
                IF last.body = EmptyBody
                THEN Failure("No data provided", "")
                ELSE Failure("Missing required field: ", FirstMissingField(last.body))

\* A rejected request in which two fields are missing, one of them as ''.
C7_Witness ==
    /\ last # None
    /\ Cardinality(MissingFields(last.body)) = 2
    /\ \E f \in DOMAIN last.body : last.body[f] = Str("")
    /\ ~last.invoked
    /\ last.status = 400

NumericFive == { "age", "hypertension", "heart_disease", "avg_glucose_level", "bmi" }

\* The number a client supplied, in tenths: a JSON number or numeric text.
SuppliedNumber(v) == IF IsNum(v) THEN v.num ELSE FloatLiterals[v.str]

SameNumbers(body, data) ==
    \A f \in NumericFive : data[f] = Num(SuppliedNumber(body[f]))

\* C8: each numeric field reaches predict_risk with the value the caller
\* supplied, or the request is rejected with success=false before
\* predict_risk is invoked.
C8_NoSilentCoercion ==
    /\ \A t \in Threads : request[t] # None => SameNumbers(request[t], patient_data[t])
    /\ last # None =>
          IF last.invoked THEN SameNumbers(last.body, last.passed)
          ELSE IsFailure(last.response)

\* C9: predict_risk never raises: every finished call returned a success
\* result with its three fields or a failure result with an error.
C9_NeverRaises ==
    \A r \in returned : IsSuccess(r.result) \/ IsFailure(r.result)

\* A call without the key bmi and a call with a non-numeric age have both
\* come back as failure results.
C9_Witness ==
    \E r1, r2 \in returned :
        /\ "bmi" \notin DOMAIN r1.input
        /\ r1.result = Failure("", "bmi")
        /\ r2.input.age = Str("abc")
        /\ r2.result = Failure("", "could not convert string to float")

UnseenCols(data) ==
    { c \in Range(categorical_cols) \cap DOMAIN data :
        ~(IsStr(data[c]) /\ data[c].str \in Range(classes_(c))) }

OtherwiseValid(data) ==
    /\ DOMAIN data = Range(feature_order)
    /\ \A f \in NumericFive : IsNum(data[f])

\* C10: an unseen categorical value is encoded as code 0 and logged, and the
\* call (all artifacts loaded, the other fields valid) returns success=true.
C10_UnseenCategoryDefaults ==
    /\ \A t \in Threads :
          pc[t] = "pr_scale" =>
              \A i \in DOMAIN feature_order :
                  feature_order[i] \in UnseenCols(patient_data[t]) =>
                      /\ X_input[t][i] = Num(0)
                      /\ [ col |-> feature_order[i],
                           value |-> patient_data[t][feature_order[i]] ] \in log[t]
    /\ \A r \in returned :
          ( /\ UnseenCols(r.input) # {}
            /\ OtherwiseValid(r.input)
            /\ \A a \in Artifacts : artifacts[a] # None ) =>
              /\ IsSuccess(r.result)
              /\ \A c \in UnseenCols(r.input) :
                    [ col |-> c, value |-> r.input[c] ] \in r.logged

\* A call with an unseen gender has returned success=true after logging it.
C10_Witness ==
    \E r \in returned :
        /\ r.input.gender = Str("Nonbinary")
        /\ IsSuccess(r.result)
        /\ [ col |-> "gender", value |-> Str("Nonbinary") ] \in r.logged

\* The codes a fitted encoder assigns to the values of its vocabulary.
TrainedCodes(col) == { Num(10 * (k - 1)) : k \in DOMAIN classes_(col) }

\* C11: the code given to an unseen categorical value is a sentinel: it is
\* not the code of any value of the field's trained vocabulary.
C11_SentinelCode ==
    \A t \in Threads :
        pc[t] = "pr_scale" =>
            \A i \in DOMAIN feature_order :
                feature_order[i] \in UnseenCols(patient_data[t]) =>
                    X_input[t][i] \notin TrainedCodes(feature_order[i])

\* ------------------------------------------------- candidate locations
\* The directory a candidate path lies in under the default configuration:
\* the second path names the working directory, the others ml_models/.
Dir(i) == IF i = 2 THEN "cwd" ELSE "ml_models"

\* Deployments with the default configuration and any files in the working
\* directory (for instance the artifacts of an earlier training run).
WorkingDirDisks ==
    { d \in [ Artifacts -> [ 1..NumCandidates -> FileStates ] ] :
        \A a \in Artifacts : d[a][1] = d[a][3] }

InitDirs ==
    /\ disk \in WorkingDirDisks
    /\ Start

\* Sequential calls with the example patient.
NextDirs ==
    \/ Call(1, { BaseData })
    \/ Step(1)

SpecDirs == InitDirs /\ [][NextDirs]_vars

\* C12: the artifacts in use come from one matched set: whatever load_model
\* has loaded was found at one and the same candidate location.
C12_MatchedArtifacts ==
    \A a, b \in Artifacts :
        (artifacts[a] # None /\ artifacts[b] # None) =>
            Dir(artifacts[a].path) = Dir(artifacts[b].path)

\* ============================================================ validators
\* ------------------------------------------------- validate_patient_data
\* required_fields of validate_patient_data (bmi is not among them).
patient_required_fields ==
    << "gender", "age", "hypertension", "heart_disease", "ever_married",
       "work_type", "Residence_type", "avg_glucose_level", "smoking_status",
       "stroke" >>

valid_genders == << "Male", "Female", "Other" >>

binary_fields == << "hypertension", "heart_disease", "stroke" >>

\* An error message: fixed text and the field it names ("" when none).
Msg(text, field) == [ text |-> text, field |-> field ]

\* (is_valid, error_message) as the validators return it.
Verdict(ok, msg) == [ is_valid |-> ok, error |-> msg ]

\* The try block of a range check: float(value), then the comparison with
\* the bounds (in tenths); ValueError and TypeError give the other message.
RangeCheck(v, lo, hi, rangeMsg, invalidMsg) ==
    LET r == PyFloat(v)
    IN  IF ~r.ok THEN invalidMsg
        ELSE IF ~IsNaN(r) /\ (r.v < lo \/ r.v > hi) THEN rangeMsg
        ELSE None

\* str(value) in ['0', '1']; the numbers of these fields are integers.
StrIn01(v) ==
    \/ IsStr(v) /\ v.str \in { "0", "1" }
    \/ IsNum(v) /\ v.num \in { 0, 10 }

\* validate_patient_data: the checks in the order of the code, the first
\* failure being returned.
validate_patient_data(data) ==
    LET missing == { i \in DOMAIN patient_required_fields :
                       \/ patient_required_fields[i] \notin DOMAIN data
                       \/ data[patient_required_fields[i]] = None }
    IN  IF missing # {}
        THEN Verdict(FALSE, Msg("Missing required field: ",
                                patient_required_fields[Least(missing)]))
        ELSE
        LET age == RangeCheck(data["age"], 0, 1200,
                              Msg("Age must be between 0 and 120.", ""),
                              Msg("Invalid age value.", ""))
            glucose == RangeCheck(data["avg_glucose_level"], 0, 5000,
                                  Msg("Glucose level must be between 0 and 500.", ""),
                                  Msg("Invalid glucose level value.", ""))
            notBinary == { i \in DOMAIN binary_fields : ~StrIn01(data[binary_fields[i]]) }
        IN  IF age # None THEN Verdict(FALSE, age)
            ELSE IF glucose # None THEN Verdict(FALSE, glucose)
            ELSE IF ~(IsStr(data["gender"]) /\ data["gender"].str \in Range(valid_genders))
                 THEN Verdict(FALSE, Msg("Gender must be one of: Male, Female, Other", ""))
            ELSE IF notBinary # {}
                 THEN Verdict(FALSE, Msg(" must be 0 or 1.", binary_fields[Least(notBinary)]))
            ELSE Verdict(TRUE, None)

\* The example record of the validator's documentation.
PatientBase ==
    [ gender |-> Str("Male"), age |-> Str("45"), hypertension |-> Str("0"),
      heart_disease |-> Str("0"), ever_married |-> Str("Yes"),
      work_type |-> Str("Private"), Residence_type |-> Str("Urban"),
      avg_glucose_level |-> Str("120.5"), smoking_status |-> Str("never smoked"),
      stroke |-> Str("0") ]

\* Number of fields in which a validated record differs from the example.
MaxPatientEdits == 2

\* What takes the place of a field: nothing, None, text that is no number,
\* the text 'nan', '1', and numbers around the bounds (in tenths).
PatientEditValues ==
    { Absent, None, Str("abc"), Str("nan"), Str("1"),
      Num(-10), Num(0), Num(1200), Num(1210), Num(5000), Num(5010) }

PatientEditSets ==
    { F \in SUBSET Range(patient_required_fields) : Cardinality(F) <= MaxPatientEdits }

PatientEdited(e) ==
    [ g \in Range(patient_required_fields) \ { f \in DOMAIN e : e[f] = Absent } |->
        IF g \in DOMAIN e THEN e[g] ELSE PatientBase[g] ]

\* ------------------------------------------------------ validate_password
\* Characters of the modelled passwords: an ASCII capital, small letter and
\* digit, a capital outside ASCII (U+00C9) and a decimal digit outside ASCII
\* (U+0663); the padding is punctuation.
PwdAlphabet == { "A", "a", "1", "U+00C9", "U+0663" }

\* A Python str: the sequence of its characters.
Text(s) == [ chars |-> s ]

\* re.search(r'[A-Z]', password)
SearchUpper(password) ==
    \E i \in DOMAIN password.chars : password.chars[i] \in { "A" }

\* re.search(r'[a-z]', password)
SearchLower(password) ==
    \E i \in DOMAIN password.chars : password.chars[i] \in { "a" }

\* re.search(r'\d', password): in a str pattern \d is every Unicode decimal
\* digit.
SearchDigit(password) ==
    \E i \in DOMAIN password.chars : password.chars[i] \in { "1", "U+0663" }

MinPasswordLen == 8

\* validate_password; a password is None or a str.
validate_password(password) ==
    IF password = None \/ password = Text(<< >>) \/ Len(password.chars) < MinPasswordLen
    THEN Verdict(FALSE, Msg("Password must be at least 8 characters long.", ""))
    ELSE IF ~SearchUpper(password)
    THEN Verdict(FALSE, Msg("Password must contain at least one uppercase letter.", ""))
    ELSE IF ~SearchLower(password)
    THEN Verdict(FALSE, Msg("Password must contain at least one lowercase letter.", ""))
    ELSE IF ~SearchDigit(password)
    THEN Verdict(FALSE, Msg("Password must contain at least one digit.", ""))
    ELSE Verdict(TRUE, None)

\* Number of freely chosen characters at the head of a modelled password.
MaxPwdChars == 3

\* Sequences over S of length at most n.
SeqsUpTo(S, n) == UNION { [ 1..k -> S ] : k \in 0..n }

\* k punctuation marks.
Padding(k) == [ i \in 1..k |-> "!" ]

\* The modelled passwords: None, and up to MaxPwdChars characters followed
\* by no, five or six punctuation marks.
PasswordInputs ==
    { None } \cup
    { Text(s \o Padding(k)) : s \in SeqsUpTo(PwdAlphabet, MaxPwdChars), k \in { 0, 5, 6 } }

\* --------------------------------------------------------- sanitize_input
StrAlphabet == { "<", ">", "&", "\"", "'", " ", "a" }

\* str.replace(c, r) on a sequence of characters, r a sequence.
RECURSIVE Replace(_, _, _)
Replace(s, c, r) ==
    IF s = << >> THEN << >>
    ELSE (IF Head(s) = c THEN r ELSE << Head(s) >>) \o Replace(Tail(s), c, r)

\* str.strip(): leading and trailing whitespace removed.
RECURSIVE LStrip(_)
LStrip(s) == IF s # << >> /\ Head(s) = " " THEN LStrip(Tail(s)) ELSE s

RECURSIVE RStrip(_)
RStrip(s) ==
    IF s # << >> /\ s[Len(s)] = " " THEN RStrip(SubSeq(s, 1, Len(s) - 1)) ELSE s

Strip(s) == RStrip(LStrip(s))

\* Mutant: html.escape(s, quote=False).
html_escape_NoQuote(s) ==
    Replace(Replace(Replace(s, "&", << "&", "a", "m", "p", ";" >>),
                    "<", << "&", "l", "t", ";" >>),
            ">", << "&", "g", "t", ";" >>)

\* html.escape(s): & first, then <, >, " and '.
html_escape(s) ==
    Replace(Replace(Replace(Replace(Replace(s,
                "&", << "&", "a", "m", "p", ";" >>),
                "<", << "&", "l", "t", ";" >>),
                ">", << "&", "g", "t", ";" >>),
                "\"", << "&", "q", "u", "o", "t", ";" >>),
                "'", << "&", "#", "x", "2", "7", ";" >>)

\* sanitize_input; the input is None or a str.
sanitize_input(input_string) ==
    IF input_string = None THEN Text(<< >>)
    ELSE Text(html_escape(Strip(input_string.chars)))

\* Longest string given to sanitize_input.
MaxStrLen == 3

SanitizeInputs == { None } \cup { Text(s) : s \in SeqsUpTo(StrAlphabet, MaxStrLen) }

\* ------------------------------------------- calls of the pure functions
\* The artifacts as the training script installs them.
InstalledDisk ==
    [ a \in Artifacts |-> [ i \in 1..NumCandidates |-> IF i = 2 THEN "absent" ELSE "ok" ] ]

InitUtil ==
    /\ disk = InstalledDisk
    /\ Start

CallValidatePatientData ==
    /\ util = None
    /\ \E F \in PatientEditSets : \E e \in [ F -> PatientEditValues ] :
          util' = [ fn |-> "validate_patient_data", arg |-> PatientEdited(e),
                    out |-> validate_patient_data(PatientEdited(e)) ]
    /\ UNCHANGED << service_vars, web_vars, db_vars >>

CallValidatePassword ==
    /\ util = None
    /\ \E p \in PasswordInputs :
          util' = [ fn |-> "validate_password", arg |-> p, out |-> validate_password(p) ]
    /\ UNCHANGED << service_vars, web_vars, db_vars >>

CallSanitizeInput ==
    /\ util = None
    /\ \E s \in SanitizeInputs :
          util' = [ fn |-> "sanitize_input", arg |-> s, out |-> sanitize_input(s) ]
    /\ UNCHANGED << service_vars, web_vars, db_vars >>

\* The caller takes the result.
UtilReturn ==
    /\ util # None
    /\ util' = None
    /\ UNCHANGED << service_vars, web_vars, db_vars >>

NextUtil ==
    \/ CallValidatePatientData
    \/ CallValidatePassword
    \/ CallSanitizeInput
    \/ UtilReturn

SpecUtil == InitUtil /\ [][NextUtil]_vars

\* ------------------------------------------------------ claims C16 - C19
\* The number a value stands for, in tenths: a number, or text that spells
\* one; 'nan' and other text spell none.
IsNumber(v) == IsNum(v) \/ (IsStr(v) /\ v.str \in DOMAIN FloatLiterals)

NumberOf(v) == IF IsNum(v) THEN v.num ELSE FloatLiterals[v.str]

NumberWithin(v, lo, hi) == IsNumber(v) /\ NumberOf(v) >= lo /\ NumberOf(v) <= hi

Is0Or1(v) == v \in { Num(0), Num(10), Str("0"), Str("1") }

PatientMissing(d) ==
    { i \in DOMAIN patient_required_fields :
        IF patient_required_fields[i] \in DOMAIN d
        THEN d[patient_required_fields[i]] = None ELSE TRUE }

\* The checks of the claim in their order: 1 presence, 2 age, 3 glucose,
\* 4 gender, 5 the binary fields; the set of those a record fails.
PatientFailed(d) ==
    IF PatientMissing(d) # {} THEN { 1 }
    ELSE { k \in 2..5 :
             CASE k = 2 -> ~NumberWithin(d["age"], 0, 1200)
               [] k = 3 -> ~NumberWithin(d["avg_glucose_level"], 0, 5000)
               [] k = 4 -> d["gender"] \notin { Str("Male"), Str("Female"), Str("Other") }
               [] k = 5 -> \E f \in { "hypertension", "heart_disease", "stroke" } :
                              ~Is0Or1(d[f]) }

\* The messages that belong to each check.
PatientMessages(k, d) ==
    CASE k = 1 -> { Msg("Missing required field: ",
                        patient_required_fields[Least(PatientMissing(d))]) }
      [] k = 2 -> { Msg("Age must be between 0 and 120.", ""), Msg("Invalid age value.", "") }
      [] k = 3 -> { Msg("Glucose level must be between 0 and 500.", ""),
                    Msg("Invalid glucose level value.", "") }
      [] k = 4 -> { Msg("Gender must be one of: Male, Female, Other", "") }
      [] k = 5 -> { Msg(" must be 0 or 1.", f) :
                      f \in { "hypertension", "heart_disease", "stroke" } }

\* C16: validate_patient_data returns (True, None) exactly when no check of
\* the list fails (fields present and non-null, age a number in [0, 120],
\* glucose a number in [0, 500], gender one of three, binary fields 0 or 1),
\* and otherwise False with a message of the first failed check.
C16_PatientVerdict ==
    (util # None /\ util.fn = "validate_patient_data") =>
        IF PatientFailed(util.arg) = {}
        THEN util.out = Verdict(TRUE, None)
        ELSE /\ util.out.is_valid = FALSE
             /\ util.out.error \in PatientMessages(Least(PatientFailed(util.arg)), util.arg)

\* C17: validate_patient_data rejects every record whose ever_married is
\* neither 'Yes' nor 'No' and every record whose Residence_type is neither
\* 'Urban' nor 'Rural'.
C17_MarriedAndResidenceChecked ==
    (util # None /\ util.fn = "validate_patient_data") =>
        LET d == util.arg
        IN  ( \/ ( "ever_married" \in DOMAIN d
                   /\ d["ever_married"] \notin { Str("Yes"), Str("No") } )
              \/ ( "Residence_type" \in DOMAIN d
                   /\ d["Residence_type"] \notin { Str("Urban"), Str("Rural") } ) )
            => util.out.is_valid = FALSE

\* The requirements as the function documents them: A-Z, a-z and 0-9.
HasUppercase(p) == \E i \in DOMAIN p.chars : p.chars[i] = "A"

HasLowercase(p) == \E i \in DOMAIN p.chars : p.chars[i] = "a"

HasDigit(p) == \E i \in DOMAIN p.chars : p.chars[i] = "1"

\* The requirements a password fails, in the order 1 length, 2 uppercase,
\* 3 lowercase, 4 digit.
PasswordFailed(p) ==
    IF p = None THEN { 1 }
    ELSE { k \in 1..4 :
             CASE k = 1 -> Len(p.chars) < 8
               [] k = 2 -> ~HasUppercase(p)
               [] k = 3 -> ~HasLowercase(p)
               [] k = 4 -> ~HasDigit(p) }

PasswordMessage(k) ==
    CASE k = 1 -> Msg("Password must be at least 8 characters long.", "")
      [] k = 2 -> Msg("Password must contain at least one uppercase letter.", "")
      [] k = 3 -> Msg("Password must contain at least one lowercase letter.", "")
      [] k = 4 -> Msg("Password must contain at least one digit.", "")

\* C18: validate_password returns (True, None) exactly when the password has
\* at least 8 characters, an uppercase letter, a lowercase letter and a
\* digit, and otherwise False with the message of the first requirement
\* that fails (None and '' fail on length).
C18_PasswordVerdict ==
    (util # None /\ util.fn = "validate_password") =>
        IF PasswordFailed(util.arg) = {}
        THEN util.out = Verdict(TRUE, None)
        ELSE util.out = Verdict(FALSE, PasswordMessage(Least(PasswordFailed(util.arg))))

RawCharacters == { "<", ">", "\"", "'" }

\* The HTML entity of a character, and the character itself when it has none.
Entity(c) ==
    CASE c = "<"  -> << "&", "l", "t", ";" >>
      [] c = ">"  -> << "&", "g", "t", ";" >>
      [] c = "&"  -> << "&", "a", "m", "p", ";" >>
      [] c = "\"" -> << "&", "q", "u", "o", "t", ";" >>
      [] c = "'"  -> << "&", "#", "x", "2", "7", ";" >>
      [] OTHER    -> << c >>

RECURSIVE Entities(_)
Entities(s) == IF s = << >> THEN << >> ELSE Entity(Head(s)) \o Entities(Tail(s))

\* The strings s can be trimmed to: s without blanks at its ends, with no
\* blank left at either end.
Trimmings(s) ==
    { SubSeq(s, i, j) : << i, j >> \in
        { ij \in (1..(Len(s) + 1)) \X (0..Len(s)) :
            /\ \A k \in 1..(ij[1] - 1) : s[k] = " "
            /\ \A k \in (ij[2] + 1)..Len(s) : s[k] = " "
            /\ ij[1] <= ij[2] => (s[ij[1]] # " " /\ s[ij[2]] # " ") } }

\* C19: the result of sanitize_input holds no raw <, >, " or '; it is the
\* trimmed input with each of these and & replaced by its entity; None gives
\* the empty string, and a string with none of the five characters comes
\* back trimmed and otherwise unchanged.
C19_Sanitized ==
    (util # None /\ util.fn = "sanitize_input") =>
        /\ \A i \in DOMAIN util.out.chars : util.out.chars[i] \notin RawCharacters
        /\ util.arg = None => util.out = Text(<< >>)
        /\ util.arg # None =>
              /\ \E t \in Trimmings(util.arg.chars) : util.out.chars = Entities(t)
              /\ (\A i \in DOMAIN util.arg.chars :
                      util.arg.chars[i] \notin RawCharacters \cup { "&" })
                    => util.out.chars \in Trimmings(util.arg.chars)

\* A string with a quote, an ampersand and a trailing blank has been
\* sanitized.
C19_Witness ==
    /\ util # None
    /\ util.fn = "sanitize_input"
    /\ util.arg = Text(<< "'", "&", " " >>)
    /\ util.out = Text(<< "&", "#", "x", "2", "7", ";", "&", "a", "m", "p", ";" >>)

\* ============================================================== user store
\* ------------------------------------------------------------------ bcrypt
\* The salts bcrypt.gensalt() may draw.
Salts == { "salt1", "salt2" }

\* bcrypt.hashpw(password, salt): the hash carries the salt beside the
\* digest of salt and password. Passwords are within bcrypt's input length
\* and no two of them share a digest.
hashpw(password, salt) == [ salt |-> salt, digest |-> << salt, password >> ]

\* Mutant: every password is accepted.
checkpw_Always(password, hashed_password) == TRUE

\* bcrypt.checkpw(password, hashed_password): the password is hashed with the
\* salt of the stored hash and the two hashes are compared.
checkpw(password, hashed_password) ==
    hashpw(password, hashed_password.salt) = hashed_password

\* ------------------------------------------------------------- users table
\* A row of the users table. last_login is 0 while the column is NULL and
\* the time of the login afterwards; created_at is never read.
Row(id, username, email, password_hash, is_admin) ==
    [ id |-> id, username |-> username, email |-> email,
      password_hash |-> password_hash, is_admin |-> is_admin, last_login |-> 0 ]

\* init_sqlite_db: the table is created if it is missing and the default
\* administrator is inserted while it holds no row.
init_sqlite_db(table, salt) ==
    IF Len(table) = 0
    THEN << Row(1, "admin", "admin@hospital.com", hashpw("admin123", salt), TRUE) >>
    ELSE table

\* SELECT * FROM users WHERE username = ?, fetchone(): the row or None.
get_user_by_username(table, username) ==
    IF \E i \in DOMAIN table : table[i].username = username
    THEN table[CHOOSE i \in DOMAIN table : table[i].username = username]
    ELSE None

\* Mutant: the query looks at the username alone.
user_exists_UsernameOnly(table, username, email) ==
    \E i \in DOMAIN table : table[i].username = username

\* SELECT id FROM users WHERE username = ? OR email = ?
user_exists(table, username, email) ==
    \E i \in DOMAIN table : table[i].username = username \/ table[i].email = email

\* Mutant: the table has no UNIQUE constraint, the INSERT always succeeds.
create_user_NoUnique(table, username, email, password_hash) ==
    [ ok |-> TRUE,
      table |-> Append(table, Row(Len(table) + 1, username, email, password_hash, FALSE)) ]

\* create_user: the INSERT is refused with IntegrityError when a row has the
\* username or the email (both columns are UNIQUE) and the function returns
\* False; otherwise the row gets the next id and the function returns True.
create_user(table, username, email, password_hash) ==
    IF \E i \in DOMAIN table : table[i].username = username \/ table[i].email = email
    THEN [ ok |-> FALSE, table |-> table ]
    ELSE [ ok |-> TRUE,
           table |-> Append(table, Row(Len(table) + 1, username, email, password_hash, FALSE)) ]

\* Mutant: the UPDATE has no WHERE clause.
update_last_login_All(table, user_id, time) ==
    [ i \in DOMAIN table |-> [ table[i] EXCEPT !.last_login = time ] ]

\* UPDATE users SET last_login = ? WHERE id = ?
update_last_login(table, user_id, time) ==
    [ i \in DOMAIN table |->
        IF table[i].id = user_id THEN [ table[i] EXCEPT !.last_login = time ]
        ELSE table[i] ]

\* The User object built from a row.
User(row) ==
    [ id |-> row.id, username |-> row.username, email |-> row.email,
      is_admin |-> row.is_admin ]

\* ============================================================ page routes
\* ------------------------------------------------------------------- users
\* The stored users: the administrator that init_sqlite_db seeds and a
\* registered user without administrator rights.
Users ==
    { [ username |-> "admin", is_admin |-> TRUE ],
      [ username |-> "nurse", is_admin |-> FALSE ] }

is_authenticated(user) == user # Anonymous

\* ----------------------------------------------------------------- MongoDB
\* A MongoClient; server_info tells whether the connection test made at its
\* creation has succeeded.
MongoClient(tested) == [ server_info |-> tested ]

\* _mongo_client[mongodb_db]
Database == [ name |-> "stroke_prediction" ]

\* get_mongo_connection: the new values of the two caches and the value
\* returned. MongoClient(...) connects lazily and does not raise; while the
\* server is down server_info() raises and the except clause returns None,
\* after the client has been cached.
get_mongo_connection(client, db, up) ==
    IF client = None
    THEN IF up
         THEN [ client |-> MongoClient(TRUE), db |-> Database, result |-> Database ]
         ELSE [ client |-> MongoClient(FALSE), db |-> db, result |-> None ]
    ELSE [ client |-> client, db |-> Database, result |-> Database ]

\* What a handler reads and writes while it runs: the two caches, the
\* collection, and the record of the service calls it has made (calls) with
\* the value each got from get_mongo_connection (conns).
World ==
    [ client |-> mongo_client, db |-> mongo_db, patients |-> patients,
      calls |-> << >>, conns |-> << >> ]

\* get_patients_collection inside the service call `name`.
get_patients_collection(w, name) ==
    LET c == get_mongo_connection(w.client, w.db, server_up)
    IN  [ w |-> [ w EXCEPT !.client = c.client, !.db = c.db,
                           !.calls = Append(@, name),
                           !.conns = Append(@, c.result) ],
          collection |-> c.result ]

\* collection.find_one({'id': patient_id}) finds a record.
find_one(collection, patient_id) == collection[patient_id] > 0

\* Mutant: the unique index is not looked at.
insert_one_NoIndex(collection, indexed, patient_id) ==
    [ raised |-> FALSE, collection |-> [ collection EXCEPT ![patient_id] = @ + 1 ] ]

\* collection.insert_one(patient_data): with the unique index on id a
\* second record of an id is refused with DuplicateKeyError.
insert_one(collection, indexed, patient_id) ==
    IF indexed /\ collection[patient_id] > 0
    THEN [ raised |-> TRUE, collection |-> collection ]
    ELSE [ raised |-> FALSE, collection |-> [ collection EXCEPT ![patient_id] = @ + 1 ] ]

\* collection.update_one({'id': patient_id}, {'$set': update_data}): the
\* first record of the id gets the new fields, updated_at among them.
update_one(collection, patient_id) ==
    [ modified_count |-> IF collection[patient_id] > 0 THEN 1 ELSE 0,
      collection |-> collection ]

\* collection.delete_one({'id': patient_id}): the first record of the id
\* is removed.
delete_one(collection, patient_id) ==
    IF collection[patient_id] > 0
    THEN [ deleted_count |-> 1, collection |-> [ collection EXCEPT ![patient_id] = @ - 1 ] ]
    ELSE [ deleted_count |-> 0, collection |-> collection ]

\* An operation on the collection reaches the server or raises
\* ServerSelectionTimeoutError.
Reaches(collection) == collection # None /\ server_up

\* --------------------------------------------------------- PatientService
\* Each call gives the world it leaves and its value; a value of None is
\* Python's None, raised marks an exception that leaves the call.
Returned(w, value) == [ w |-> w, value |-> value, raised |-> FALSE ]

get_dashboard_stats(w) ==
    LET g == get_patients_collection(w, "get_dashboard_stats")
    IN  Returned(g.w, IF Reaches(g.collection) THEN Str("stats") ELSE None)

get_recent_patients(w) ==
    LET g == get_patients_collection(w, "get_recent_patients")
    IN  Returned(g.w, IF Reaches(g.collection) THEN Str("records") ELSE Str("[]"))

search_patients(w) ==
    LET g == get_patients_collection(w, "search_patients")
    IN  Returned(g.w, IF Reaches(g.collection) THEN Str("records") ELSE Str("[]"))

\* find_one is made outside any try block.
get_patient_by_id(w, patient_id) ==
    LET g == get_patients_collection(w, "get_patient_by_id")
    IN  IF g.collection = None THEN Returned(g.w, None)
        ELSE IF ~server_up THEN [ w |-> g.w, value |-> None, raised |-> TRUE ]
        ELSE Returned(g.w, IF find_one(g.w.patients, patient_id)
                           THEN [ id |-> patient_id ] ELSE None)

create_patient(w, patient_id) ==
    LET g == get_patients_collection(w, "create_patient")
    IN  IF g.collection = None
        THEN Returned(g.w, [ success |-> FALSE, message |-> "Database connection unavailable." ])
        ELSE IF ~server_up
        THEN Returned(g.w, [ success |-> FALSE, message |-> "Error adding patient: " ])
        ELSE IF find_one(g.w.patients, patient_id)
        THEN Returned(g.w, [ success |-> FALSE, message |-> "Patient ID already exists." ])
        ELSE LET inserted == insert_one(g.w.patients, id_index, patient_id)
             IN  IF inserted.raised
                 THEN Returned(g.w, [ success |-> FALSE, message |-> "Error adding patient: " ])
                 ELSE Returned([ g.w EXCEPT !.patients = inserted.collection ],
                               [ success |-> TRUE,
                                 message |-> "Patient record added successfully!" ])

update_patient(w, patient_id) ==
    LET g == get_patients_collection(w, "update_patient")
    IN  IF g.collection = None
        THEN Returned(g.w, [ success |-> FALSE, message |-> "Database connection unavailable." ])
        ELSE IF ~server_up
        THEN Returned(g.w, [ success |-> FALSE, message |-> "Error updating patient: " ])
        ELSE IF update_one(g.w.patients, patient_id).modified_count > 0
        THEN Returned(g.w, [ success |-> TRUE, message |-> "Patient record updated successfully!" ])
        ELSE Returned(g.w, [ success |-> FALSE, message |-> "Patient not found." ])

delete_patient(w, patient_id) ==
    LET g == get_patients_collection(w, "delete_patient")
    IN  IF g.collection = None
        THEN Returned(g.w, [ success |-> FALSE, message |-> "Database connection unavailable." ])
        ELSE IF ~server_up
        THEN Returned(g.w, [ success |-> FALSE, message |-> "Error deleting patient." ])
        ELSE IF delete_one(g.w.patients, patient_id).deleted_count > 0
        THEN Returned([ g.w EXCEPT !.patients = delete_one(@, patient_id).collection ],
                      [ success |-> TRUE, message |-> "Patient record deleted successfully." ])
        ELSE Returned(g.w, [ success |-> FALSE, message |-> "Patient not found." ])

get_analytics_data(w) ==
    LET g == get_patients_collection(w, "get_analytics_data")
    IN  Returned(g.w, IF Reaches(g.collection) THEN Str("data") ELSE None)

\* get_all_users reads the users table of the SQLite database.
get_all_users(w) ==
    Returned([ w EXCEPT !.calls = Append(@, "get_all_users") ], Str("users"))

\* ------------------------------------------------------------------ forms
\* The form of /patient/add filled in with the documented example; the id
\* field spells an integer, the bmi field is left empty.
PatientForm(patient_id) ==
    [ patient_id |-> Num(10 * patient_id), gender |-> Str("Male"),
      age |-> Str("45"), hypertension |-> Str("0"), heart_disease |-> Str("0"),
      ever_married |-> Str("Yes"), work_type |-> Str("Private"),
      Residence_type |-> Str("Urban"), avg_glucose_level |-> Str("120.5"),
      smoking_status |-> Str("never smoked"), stroke |-> Str("0") ]

\* The forms posted: the example for each id, one whose age is no number
\* and one whose gender is not a listed one.
WebForms ==
    { PatientForm(i) : i \in PatientIds }
      \cup { [ PatientForm(1) EXCEPT !.age = Str("abc") ],
             [ PatientForm(1) EXCEPT !.gender = Str("abc") ] }

\* The int() and float() conversions of add_patient in the order of the
\* dict literal.
FormConversions ==
    << << "patient_id", "int" >>, << "age", "float" >>, << "hypertension", "int" >>,
       << "heart_disease", "int" >>, << "avg_glucose_level", "float" >>,
       << "stroke", "int" >> >>

\* patient_data as add_patient and edit_patient build it from the form: the
\* first conversion that raises ends the try block. The text fields of the
\* modelled forms hold nothing that sanitize_input changes.
FormData(form) ==
    LET failing == { i \in DOMAIN FormConversions :
                       ~Convert(FormConversions[i][2], form[FormConversions[i][1]]).ok }
        kindOf(f) == FormConversions[CHOOSE i \in DOMAIN FormConversions :
                                        FormConversions[i][1] = f][2]
    IN  IF failing # {}
        THEN LET c == FormConversions[Least(failing)] IN Convert(c[2], form[c[1]])
        ELSE Ok([ f \in (DOMAIN form \ { "patient_id" }) \cup { "id", "bmi" } |->
                    IF f = "bmi" THEN Str("N/A")
                    ELSE IF f = "id" THEN Num(Convert("int", form["patient_id"]).v)
                    ELSE IF \E i \in DOMAIN FormConversions : FormConversions[i][1] = f
                    THEN Num(Convert(kindOf(f), form[f]).v)
                    ELSE form[f] ])

\* --------------------------------------------------------------- responses
\* The response of a view with the world and the session it leaves; ran
\* tells that the body of the view function was entered.
Page(w, s) == [ w |-> w, session |-> s, status |-> 200, to |-> "", ran |-> TRUE ]

Redirect(w, s, to) == [ w |-> w, session |-> s, status |-> 302, to |-> to, ran |-> TRUE ]

\* An exception that leaves the view: the 500 handler answers.
InternalError(w, s) == [ w |-> w, session |-> s, status |-> 500, to |-> "", ran |-> TRUE ]

\* A decorator answered in place of the view.
Refused(w, s, to) == [ w |-> w, session |-> s, status |-> 302, to |-> to, ran |-> FALSE ]

\* ------------------------------------------------------------------- views
auth_index(w, s) ==
    IF is_authenticated(s) THEN Redirect(w, s, "/dashboard") ELSE Redirect(w, s, "/login")

\* logout_user() makes the client anonymous.
logout(w, s) == Redirect(w, Anonymous, "/login")

dashboard_index(w, s) ==
    LET stats == get_dashboard_stats(w)
    IN  IF stats.value = None THEN Page(stats.w, s)
        ELSE Page(get_recent_patients(stats.w).w, s)

list_patients(w, s) == Page(search_patients(w).w, s)

view_patient(w, s, patient_id) ==
    LET patient == get_patient_by_id(w, patient_id)
    IN  IF patient.raised THEN InternalError(patient.w, s)
        ELSE IF patient.value = None THEN Redirect(patient.w, s, "/patients")
        ELSE Page(patient.w, s)

\* GET shows the form; POST builds the data, validates it and creates the
\* record.
add_patient(w, s, method, form) ==
    IF method = "GET" THEN Page(w, s)
    ELSE LET data == FormData(form)
         IN  IF ~data.ok THEN Page(w, s)
             ELSE IF ~validate_patient_data(data.v).is_valid THEN Page(w, s)
             ELSE LET created == create_patient(w, data.v["id"].num \div 10)
                  IN  IF created.value.success
                      THEN Redirect(created.w, s, "/patients")
                      ELSE Page(created.w, s)

\* update_data has no id: the id field of the form is not read.
edit_patient(w, s, method, patient_id, form) ==
    LET patient == get_patient_by_id(w, patient_id)
    IN  IF patient.raised THEN InternalError(patient.w, s)
        ELSE IF patient.value = None THEN Redirect(patient.w, s, "/patients")
        ELSE IF method = "GET" THEN Page(patient.w, s)
        ELSE LET data == FormData(form)
             IN  IF ~data.ok THEN Page(patient.w, s)
                 ELSE IF ~validate_patient_data(data.v).is_valid THEN Page(patient.w, s)
                 ELSE LET updated == update_patient(patient.w, patient_id)
                      IN  IF updated.value.success
                          THEN Redirect(updated.w, s, "/patients")
                          ELSE Page(updated.w, s)

delete_patient_view(w, s, patient_id) ==
    Redirect(delete_patient(w, patient_id).w, s, "/patients")

analytics_index(w, s) == Page(get_analytics_data(w).w, s)

predict_page(w, s) == Page(w, s)

admin_users(w, s) == Page(get_all_users(w).w, s)

\* ------------------------------------------------------------------ routes
\* The page routes with their methods and decorators, outermost first.
RouteTable ==
    [ r \in { "/", "/logout", "/dashboard", "/patients", "/patient/<id>",
              "/patient/add", "/patient/edit/<id>", "/patient/delete/<id>",
              "/analytics", "/predict-page", "/predict", "/admin/users" } |->
        [ methods |->
            IF r \in { "/patient/add", "/patient/edit/<id>" } THEN { "GET", "POST" }
            ELSE IF r \in { "/patient/delete/<id>", "/predict" } THEN { "POST" }
            ELSE { "GET" },
          decorators |->
            IF r = "/" THEN << >>
            ELSE IF r = "/admin/users" THEN << "login_required", "admin_required" >>
            ELSE << "login_required" >> ] ]

\* The view function of a route.
View(route, w, s, method, patient_id, form) ==
    CASE route = "/" -> auth_index(w, s)
      [] route = "/logout" -> logout(w, s)
      [] route = "/dashboard" -> dashboard_index(w, s)
      [] route = "/patients" -> list_patients(w, s)
      [] route = "/patient/<id>" -> view_patient(w, s, patient_id)
      [] route = "/patient/add" -> add_patient(w, s, method, form)
      [] route = "/patient/edit/<id>" -> edit_patient(w, s, method, patient_id, form)
      [] route = "/patient/delete/<id>" -> delete_patient_view(w, s, patient_id)
      [] route = "/analytics" -> analytics_index(w, s)
      [] route = "/predict-page" -> predict_page(w, s)
      [] route = "/admin/users" -> admin_users(w, s)

\* Mutant: the decorator lets every client through.
login_required_Open(s) == ""

\* flask_login's login_required: an anonymous client is sent to login_view.
\* The value is the URL the decorator redirects to, "" when it calls on.
login_required(s) == IF ~is_authenticated(s) THEN "/login" ELSE ""

\* Mutant: administrator rights are not looked at.
admin_required_AnyUser(s) == IF ~is_authenticated(s) THEN "/login" ELSE ""

\* admin_required of utils/decorators.py.
admin_required(s) ==
    IF ~is_authenticated(s) THEN "/login"
    ELSE IF ~s.is_admin THEN "/dashboard"
    ELSE ""

Decorate(name, s) == IF name = "login_required" THEN login_required(s) ELSE admin_required(s)

\* The redirect of the first decorator that refuses the client, "" when all
\* call on.
Gate(route, s) ==
    LET d == RouteTable[route].decorators
        refusing == { i \in DOMAIN d : Decorate(d[i], s) # "" }
    IN  IF refusing = {} THEN "" ELSE Decorate(d[Least(refusing)], s)

\* A request to a route as the decorated view answers it.
Dispatch(route, w, s, method, patient_id, form) ==
    IF Gate(route, s) # "" THEN Refused(w, s, Gate(route, s))
    ELSE View(route, w, s, method, patient_id, form)

\* ----------------------------------------------------------------- actions
\* The worker is free: no /predict request is being served.
WorkerFree == pc[1] = "idle" /\ last = None

\* No two records of the collection share an id.
Distinct == \A i \in PatientIds : patients[i] <= 1

\* create_app: _init_databases calls init_sqlite_db and init_mongodb; the
\* latter connects, creates the indexes and, when the collection is empty,
\* loads the records of the dataset if the CSV file is found. create_index
\* raises when two records share an id, which ends init_mongodb.
CreateApp ==
    /\ ~started
    /\ started' = TRUE
    /\ LET c == get_mongo_connection(mongo_client, mongo_db, server_up)
       IN  /\ mongo_client' = c.client
           /\ mongo_db' = c.db
           /\ id_index' = (id_index \/ (c.result # None /\ Distinct))
           /\ IF c.result # None /\ Distinct /\ patients = NoPatients
              THEN patients' \in { NoPatients, [ i \in PatientIds |-> 1 ] }
              ELSE patients' = patients
    /\ \E salt \in Salts : users' = init_sqlite_db(users, salt)
    /\ UNCHANGED << service_vars, util, task, finished, now, session, server_up, http >>

\* The MongoDB server goes down or comes back.
ServerChange ==
    /\ server_up' = ~server_up
    /\ UNCHANGED << service_vars, util, db_vars, started, session, mongo_client, mongo_db,
                    patients, http >>

\* The answer to a request as `http` keeps it.
Answered(route, method, r) ==
    [ route |-> route, method |-> method, user |-> session, up |-> server_up,
      ran |-> r.ran, status |-> r.status, to |-> r.to,
      calls |-> r.w.calls, conns |-> r.w.conns ]

\* POST /login with the credentials of a stored user (good) or not; the
\* steps of AuthService.authenticate are those of LoginPost.
Login ==
    /\ started
    /\ WorkerFree
    /\ \E u \in Users : \E good \in BOOLEAN :
          LET r == IF is_authenticated(session) THEN Redirect(World, session, "/dashboard")
                   ELSE IF good THEN Redirect(World, u, "/dashboard")
                   ELSE Page(World, session)
          IN  /\ session' = r.session
              /\ http' = Answered("/login", "POST", r)
    /\ UNCHANGED << service_vars, util, db_vars, started, server_up, mongo_client, mongo_db,
                    patients >>

\* A request to one of the page routes. (A /predict request that passes its
\* decorator is served by predict.)
Request ==
    /\ started
    /\ WorkerFree
    /\ \E route \in DOMAIN RouteTable : \E method \in RouteTable[route].methods :
       \E patient_id \in PatientIds : \E form \in WebForms :
          /\ route = "/predict" => Gate(route, session) # ""
          /\ LET r == Dispatch(route, World, session, method, patient_id, form)
             IN  /\ session' = r.session
                 /\ mongo_client' = r.w.client
                 /\ mongo_db' = r.w.db
                 /\ patients' = r.w.patients
                 /\ http' = Answered(route, method, r)
    /\ UNCHANGED << service_vars, util, db_vars, started, server_up >>

\* The JSON bodies posted to /predict by the page: the example and {}.
PredictBodies == { BaseData, EmptyBody }

\* POST /predict by a client that passes login_required.
WebPredict ==
    /\ started
    /\ Gate("/predict", session) = ""
    /\ \E body \in PredictBodies : predict(1, body)

InitWeb ==
    /\ disk = InstalledDisk
    /\ ServiceStart
    /\ AppStart
    /\ server_up \in BOOLEAN
    /\ patients \in [ PatientIds -> { 0, 1 } ]
    /\ id_index = FALSE
    /\ users = << >>

\* One client and one worker: requests are served one after another.
NextWeb ==
    \/ CreateApp
    \/ ServerChange
    \/ Login
    \/ Request
    \/ WebPredict
    \/ Step(1)
    \/ Respond

SpecWeb == InitWeb /\ [][NextWeb]_vars

\* ------------------------------------------------- claims C14, C15, C20
\* The protected routes as the claim lists them.
ProtectedRoutes ==
    { "/dashboard", "/patients", "/patient/<id>", "/patient/add",
      "/patient/edit/<id>", "/patient/delete/<id>", "/analytics",
      "/predict-page", "/predict", "/admin/users", "/logout" }

\* C14: a request of an anonymous client to a protected route is answered
\* with a redirect to /login and the view never runs: no service call, no
\* database connection, and no /predict request of an anonymous client is
\* ever validated or handed to the prediction service; / redirects an
\* anonymous client to /login.
C14_LoginRequired ==
    /\ (http # None /\ http.user = Anonymous /\ http.route \in ProtectedRoutes) =>
          /\ http.status = 302 /\ http.to = "/login"
          /\ ~http.ran
          /\ http.calls = << >> /\ http.conns = << >>
    /\ (http # None /\ http.user = Anonymous /\ http.route = "/") =>
          http.status = 302 /\ http.to = "/login"
    /\ (request[1] # None \/ last # None) => session # Anonymous

\* An anonymous POST to /patient/delete/<id> was sent to /login while the
\* collection holds a record.
C14_Witness ==
    /\ http # None
    /\ http.user = Anonymous
    /\ http.route = "/patient/delete/<id>"
    /\ http.to = "/login"
    /\ patients # NoPatients

\* C15: the view of /admin/users runs, and get_all_users is called, only
\* for a logged-in user with is_admin; another logged-in user is sent to
\* /dashboard and an anonymous client to /login, the user list unread.
C15_AdminRequired ==
    (http # None /\ http.route = "/admin/users") =>
        /\ http.ran <=> (http.user # Anonymous /\ http.user.is_admin)
        /\ http.ran => http.calls = << "get_all_users" >>
        /\ ~http.ran =>
              /\ http.calls = << >>
              /\ http.status = 302
              /\ http.to = IF http.user = Anonymous THEN "/login" ELSE "/dashboard"

\* The user without administrator rights was sent from /admin/users to
\* /dashboard.
C15_Witness ==
    /\ http # None
    /\ http.route = "/admin/users"
    /\ http.user # Anonymous
    /\ ~http.user.is_admin
    /\ http.to = "/dashboard"
    /\ ~http.ran

\* C20: get_mongo_connection returns None on every call made while the
\* server cannot be reached, and a database handle only when server_info
\* has succeeded on the cached client.
C20_NoneWhileUnreachable ==
    http # None =>
        \A i \in DOMAIN http.conns :
            /\ ~http.up => http.conns[i] = None
            /\ http.conns[i] # None =>
                  (mongo_client # None /\ mongo_client.server_info)

\* ------------------------------------------------ claims on load_model's answer
\* C24: whenever load_model has returned True to a call, the classifier, the
\* scaler and the encoders are all loaded (none of the three attributes is
\* None), on the first call and on every later one. load_ok[t] holds the
\* answer from the return of load_model to the end of the call.
C24_TrueOnlyWhenAllLoaded ==
    \A t \in Threads :
        (pc[t] \in { "pr_guard" } \cup PipelinePcs /\ load_ok[t]) =>
            \A a \in Artifacts : artifacts[a] # None

\* ------------------------------------- claims on the reported percentage
\* Thresholds of the reported percentage, in hundredths of a percent.
LowPercent == 3300
HighPercent == 6600

\* C25: in every success result the category agrees with the percentage
\* reported beside it: the rounded percentage is below 33.00 exactly when
\* the category is Low Risk and at least 66.00 exactly when it is High Risk.
C25_CategoryAgreesWithPercentage ==
    \A r \in returned :
        IsSuccess(r.result) =>
            /\ (r.result.risk_probability < LowPercent) <=>
                   (r.result.risk_category = "Low Risk")
            /\ (r.result.risk_probability >= HighPercent) <=>
                   (r.result.risk_category = "High Risk")

\* ========================================================== authentication
\* ------------------------------------------------------------------ inputs
\* Number of AuthService calls of a run.
MaxAuthCalls == 2

Usernames == { "admin", "nurse" }

Emails == { "admin@hospital.com", "nurse@hospital.com" }

Passwords == { "admin123", "Nurse123" }

\* ---------------------------------------------------------- end of a call
\* The response of the login view: status, target of the redirect and the
\* message flashed.
LoginResponse(status, to, flash) == [ status |-> status, to |-> to, flash |-> flash ]

\* After AuthService.authenticate has returned `user` to the login view:
\* login_user and the redirect, or the flash of the failure and the form.
login_after(user, username) ==
    IF user # None
    THEN LoginResponse(302, "/dashboard", << "Welcome back, ", username, "!" >>)
    ELSE LoginResponse(200, "", << "Invalid username or password." >>)

\* The call of thread t returns `value`, leaving the table as `table`. A
\* call made by the login view is followed by the rest of the view.
AuthReturn(t, value, table) ==
    /\ users' = table
    /\ task' = [ task EXCEPT ![t] = None ]
    /\ finished' =
          [ fn |-> task[t].fn, caller |-> task[t].caller, args |-> task[t].args,
            value |-> value, before |-> task[t].before, after |-> table,
            response |-> IF task[t].caller = "login"
                         THEN login_after(value, task[t].args.username)
                         ELSE None ]
    /\ session' = IF task[t].caller = "login" /\ value # None THEN value ELSE session

\* A thread begins a call: the clock advances.
AuthCall(t, fn, caller, args, pc0) ==
    /\ started
    /\ task[t] = None
    /\ now < MaxAuthCalls
    /\ now' = now + 1
    /\ task' = [ task EXCEPT ![t] =
                   [ fn |-> fn, caller |-> caller, args |-> args, pc |-> pc0,
                     before |-> users, time |-> now + 1 ] ]

\* ------------------------------------------------------------ authenticate
\* AuthService.authenticate(username, password) is called directly.
CallAuthenticate(t) ==
    /\ \E username \in Usernames : \E password \in Passwords :
          AuthCall(t, "authenticate", "direct",
                   [ username |-> username, password |-> password ],
                   "get_user_by_username")
    /\ UNCHANGED << service_vars, util, web_vars, users, id_index, finished >>

\* POST /login. A client that is logged in is sent to the dashboard; a form
\* with an empty field is answered at once; otherwise the view calls
\* AuthService.authenticate. The usernames posted hold nothing that
\* sanitize_input changes.
LoginPost(t) ==
    /\ started
    /\ task[t] = None
    /\ now < MaxAuthCalls
    /\ \E username \in Usernames \cup { "" } : \E password \in Passwords \cup { "" } :
          LET args == [ username |-> username, password |-> password ]
              answered(r) ==
                  /\ finished' = [ fn |-> "login", caller |-> "client", args |-> args,
                                   value |-> None, before |-> users, after |-> users,
                                   response |-> r ]
                  /\ now' = now + 1
                  /\ task' = task
          IN  IF is_authenticated(session)
              THEN answered(LoginResponse(302, "/dashboard", << >>))
              ELSE IF username = "" \/ password = ""
              THEN answered(LoginResponse(200, "",
                                << "Please provide both username and password." >>))
              ELSE /\ AuthCall(t, "authenticate", "login", args, "get_user_by_username")
                   /\ finished' = finished
    /\ UNCHANGED << service_vars, util, web_vars, users, id_index >>

\* user_data = get_user_by_username(username); without a row the failed
\* attempt is logged and None returned.
GetUserByUsername(t) ==
    /\ task[t] # None
    /\ task[t].pc = "get_user_by_username"
    /\ LET user_data == get_user_by_username(users, task[t].args.username)
       IN  IF user_data = None
           THEN AuthReturn(t, None, users)
           ELSE /\ task' = [ task EXCEPT ![t] =
                               [ fn |-> @.fn, caller |-> @.caller, args |-> @.args,
                                 pc |-> "checkpw", before |-> @.before,
                                 time |-> @.time, user_data |-> user_data ] ]
                /\ UNCHANGED << users, finished, session >>
    /\ UNCHANGED << service_vars, util, started, server_up, mongo_client, mongo_db,
                    patients, http, id_index, now >>

\* bcrypt.checkpw on the row read; on a match update_last_login and the
\* User object, otherwise the logged failure and None.
CheckPassword(t) ==
    /\ task[t] # None
    /\ task[t].pc = "checkpw"
    /\ LET user_data == task[t].user_data
       IN  IF checkpw(task[t].args.password, user_data.password_hash)
           THEN AuthReturn(t, User(user_data),
                           update_last_login(users, user_data.id, task[t].time))
           ELSE AuthReturn(t, None, users)
    /\ UNCHANGED << service_vars, util, started, server_up, mongo_client, mongo_db,
                    patients, http, id_index, now >>

\* ---------------------------------------------------------------- register
\* AuthService.register(username, email, password) is called.
CallRegister(t) ==
    /\ \E username \in Usernames : \E email \in Emails : \E password \in Passwords :
          AuthCall(t, "register", "direct",
                   [ username |-> username, email |-> email, password |-> password ],
                   "user_exists")
    /\ UNCHANGED << service_vars, util, web_vars, users, id_index, finished >>

\* The (success, message) pair register returns.
Registered(success, message) == [ success |-> success, message |-> message ]

\* if user_exists(username, email): return False, '... already exists.'
UserExists(t) ==
    /\ task[t] # None
    /\ task[t].pc = "user_exists"
    /\ IF user_exists(users, task[t].args.username, task[t].args.email)
       THEN AuthReturn(t, Registered(FALSE, "Username or email already exists."), users)
       ELSE /\ task' = [ task EXCEPT ![t].pc = "create_user" ]
            /\ UNCHANGED << users, finished, session >>
    /\ UNCHANGED << service_vars, util, started, server_up, mongo_client, mongo_db,
                    patients, http, id_index, now >>

\* The password is hashed with a fresh salt and create_user inserts the row.
CreateUser(t) ==
    /\ task[t] # None
    /\ task[t].pc = "create_user"
    /\ \E salt \in Salts :
          LET created == create_user(users, task[t].args.username, task[t].args.email,
                                     hashpw(task[t].args.password, salt))
          IN  IF created.ok
              THEN AuthReturn(t, Registered(TRUE, "Registration successful! Please log in."),
                              created.table)
              ELSE AuthReturn(t, Registered(FALSE, "An error occurred during registration."),
                              created.table)
    /\ UNCHANGED << service_vars, util, started, server_up, mongo_client, mongo_db,
                    patients, http, id_index, now >>

\* --------------------------------------------------------- specifications
AuthStep(t) ==
    \/ GetUserByUsername(t)
    \/ CheckPassword(t)
    \/ UserExists(t)
    \/ CreateUser(t)

InitAuth ==
    /\ disk = InstalledDisk
    /\ Start

\* Concurrent register calls: app.run serves each request in a thread of
\* its own.
NextRegister ==
    \/ CreateApp
    \/ \E t \in Threads :
          \/ CallRegister(t)
          \/ UserExists(t)
          \/ CreateUser(t)

SpecRegister == InitAuth /\ [][NextRegister]_vars

\* Calls that do not overlap.
NextAuthSeq ==
    \/ CreateApp
    \/ CallAuthenticate(1)
    \/ LoginPost(1)
    \/ CallRegister(1)
    \/ AuthStep(1)

SpecAuthSeq == InitAuth /\ [][NextAuthSeq]_vars

\* ------------------------------------------------ claims on authenticate
\* The rows of a table that have the username and whose hash was made from
\* the password.
Matching(table, username, password) ==
    { i \in DOMAIN table :
        /\ table[i].username = username
        /\ \E salt \in Salts : table[i].password_hash = hashpw(password, salt) }

\* The last call that returned was a call of fn.
Finished(fn) == finished # None /\ finished.fn = fn

Taken(table, username, email) ==
    \E i \in DOMAIN table : table[i].username = username \/ table[i].email = email

FailedLogin ==
    /\ Finished("authenticate")
    /\ finished.caller = "login"
    /\ Matching(finished.before, finished.args.username, finished.args.password) = {}

\* C23: a failed login is answered with the flash 'Invalid username or
\* password.' and the login page, and no session is created, whether the
\* username is unknown or the password is wrong: the response is the same
\* in both cases.
C23_SameFailedResponse ==
    FailedLogin =>
        /\ finished.response =
               [ status |-> 200, to |-> "", flash |-> << "Invalid username or password." >> ]
        /\ session = Anonymous
        /\ finished.after = finished.before

\* A login with the wrong password of a stored user has failed.
C23_Witness ==
    /\ FailedLogin
    /\ get_user_by_username(finished.before, finished.args.username) # None
    /\ finished.response.status = 200

\* A login with an unknown username has failed.
C23_WitnessUnknown ==
    /\ FailedLogin
    /\ get_user_by_username(finished.before, finished.args.username) = None
    /\ finished.response.status = 200

\* ------------------------------------------ claims on concurrent register
\* C27: whatever the interleaving of concurrent register calls, no two
\* stored users share a username or an email, and a register call that has
\* returned success has added exactly one user: one row holds its username
\* and its email.
C27_UniqueUsers ==
    /\ \A i, j \in DOMAIN users :
          i # j => users[i].username # users[j].username /\ users[i].email # users[j].email
    /\ (Finished("register") /\ finished.value.success) =>
          Cardinality({ i \in DOMAIN users :
                          users[i].username = finished.args.username
                            \/ users[i].email = finished.args.email }) = 1

\* Two register calls with the same username both passed user_exists, one
\* has inserted its row and the INSERT of the other has been refused.
C27_Witness ==
    /\ Finished("register")
    /\ finished.value = [ success |-> FALSE,
                          message |-> "An error occurred during registration." ]
    /\ ~Taken(finished.before, finished.args.username, finished.args.email)
    /\ Taken(users, finished.args.username, finished.args.email)

\* ====================================================== concurrent patients
\* Number of PatientService calls of a run.
MaxPatientCalls == 2

\* What PatientService returns: the (success, message) pair.
Outcome(success, message) == [ success |-> success, message |-> message ]

\* The call of thread t returns `value`, leaving the collection as
\* `collection`.
PatientReturn(t, value, collection) ==
    /\ patients' = collection
    /\ task' = [ task EXCEPT ![t] = None ]
    /\ finished' = [ fn |-> task[t].fn, patient_id |-> task[t].patient_id,
                     value |-> value, before |-> patients, after |-> collection ]

\* A thread enters create_patient, update_patient or delete_patient:
\* get_patients_collection, and without a collection the failure at once.
PatientCall(t) ==
    /\ started
    /\ task[t] = None
    /\ now < MaxPatientCalls
    /\ now' = now + 1
    /\ \E fn \in { "create_patient", "update_patient", "delete_patient" } :
       \E patient_id \in PatientIds :
          LET g == get_patients_collection(World, fn)
          IN  /\ mongo_client' = g.w.client
              /\ mongo_db' = g.w.db
              /\ IF g.collection = None
                 THEN /\ finished' =
                            [ fn |-> fn, patient_id |-> patient_id,
                              value |-> Outcome(FALSE, "Database connection unavailable."),
                              before |-> patients, after |-> patients ]
                      /\ task' = task
                 ELSE /\ task' = [ task EXCEPT ![t] =
                                     [ fn |-> fn, patient_id |-> patient_id,
                                       pc |-> IF fn = "create_patient" THEN "find_one"
                                              ELSE IF fn = "update_patient" THEN "update_one"
                                              ELSE "delete_one" ] ]
                      /\ finished' = finished
    /\ UNCHANGED << service_vars, util, started, session, server_up, patients, http,
                    users, id_index >>

\* if collection.find_one({'id': patient_data['id']}): return False, ...
FindOne(t) ==
    /\ task[t] # None
    /\ task[t].pc = "find_one"
    /\ IF ~server_up
       THEN PatientReturn(t, Outcome(FALSE, "Error adding patient: "), patients)
       ELSE IF find_one(patients, task[t].patient_id)
       THEN PatientReturn(t, Outcome(FALSE, "Patient ID already exists."), patients)
       ELSE /\ task' = [ task EXCEPT ![t].pc = "insert_one" ]
            /\ UNCHANGED << patients, finished >>
    /\ UNCHANGED << service_vars, util, started, session, server_up, mongo_client,
                    mongo_db, http, users, id_index, now >>

\* collection.insert_one(patient_data) and the return of create_patient.
InsertOne(t) ==
    /\ task[t] # None
    /\ task[t].pc = "insert_one"
    /\ LET inserted == insert_one(patients, id_index, task[t].patient_id)
       IN  IF ~server_up \/ inserted.raised
           THEN PatientReturn(t, Outcome(FALSE, "Error adding patient: "), patients)
           ELSE PatientReturn(t, Outcome(TRUE, "Patient record added successfully!"),
                              inserted.collection)
    /\ UNCHANGED << service_vars, util, started, session, server_up, mongo_client,
                    mongo_db, http, users, id_index, now >>

\* collection.update_one(...) and the return of update_patient.
UpdateOne(t) ==
    /\ task[t] # None
    /\ task[t].pc = "update_one"
    /\ LET updated == update_one(patients, task[t].patient_id)
       IN  IF ~server_up
           THEN PatientReturn(t, Outcome(FALSE, "Error updating patient: "), patients)
           ELSE IF updated.modified_count > 0
           THEN PatientReturn(t, Outcome(TRUE, "Patient record updated successfully!"),
                              updated.collection)
           ELSE PatientReturn(t, Outcome(FALSE, "Patient not found."), updated.collection)
    /\ UNCHANGED << service_vars, util, started, session, server_up, mongo_client,
                    mongo_db, http, users, id_index, now >>

\* collection.delete_one(...) and the return of delete_patient.
DeleteOne(t) ==
    /\ task[t] # None
    /\ task[t].pc = "delete_one"
    /\ LET deleted == delete_one(patients, task[t].patient_id)
       IN  IF ~server_up
           THEN PatientReturn(t, Outcome(FALSE, "Error deleting patient."), patients)
           ELSE IF deleted.deleted_count > 0
           THEN PatientReturn(t, Outcome(TRUE, "Patient record deleted successfully."),
                              deleted.collection)
           ELSE PatientReturn(t, Outcome(FALSE, "Patient not found."), deleted.collection)
    /\ UNCHANGED << service_vars, util, started, session, server_up, mongo_client,
                    mongo_db, http, users, id_index, now >>

\* A fresh database; the server is up or down when the application starts.
InitPatients ==
    /\ disk = InstalledDisk
    /\ ServiceStart
    /\ AppStart
    /\ server_up \in BOOLEAN
    /\ patients = NoPatients
    /\ id_index = FALSE
    /\ users = << >>

\* Requests served by concurrent threads.
NextPatients ==
    \/ CreateApp
    \/ ServerChange
    \/ \E t \in Threads :
          \/ PatientCall(t)
          \/ FindOne(t)
          \/ InsertOne(t)
          \/ UpdateOne(t)
          \/ DeleteOne(t)

SpecPatients == InitPatients /\ [][NextPatients]_vars

\* -------------------------------------------------- claims on patient ids
\* C26: after any interleaving of create_patient, update_patient and
\* delete_patient calls no two records share an id, and a create_patient
\* call whose id was present when it wrote returns failure and leaves the
\* collection as it was, whether or not the index was created at startup.
C26_UniquePatientIds ==
    /\ \A i \in PatientIds : patients[i] <= 1
    /\ (Finished("create_patient") /\ finished.before[finished.patient_id] > 0) =>
          ~finished.value.success /\ finished.after = finished.before

====
